---- MODULE Spec2Model ----
(***************************************************************************)
(* A model of the paper downloader (paper_downloader.py): one invocation   *)
(* of download_pmc_papers (mode "pmc") or of                                *)
(* download_pubmed_free_fulltext_papers (mode "pubmed").                    *)
(*                                                                         *)
(* Strings are sequences of tokens.  A token stands for a run of           *)
(* characters that the code never splits ("/", "articles", "PMC", a run of *)
(* digits, ".pdf", a host name ...), so the code's startswith, endswith,   *)
(* `in`, split('/') and its regular expressions become operations on       *)
(* token sequences.  The empty sequence stands for both None and "".       *)
(***************************************************************************)
EXTENDS Integers, Sequences, FiniteSets, TLC

(* ------------------------------ bounds -------------------------------- *)
\* largest result limit k an invocation is called with
MaxK == 2
\* largest number of links on a search page
MaxSearchLinks == 2
\* largest number of links on a record page or an article page
MaxPageLinks == 2
\* largest number of phrases batch_download_papers is called with
MaxTerms == 2

(* ------------------------------ strings ------------------------------- *)
Range(s) == {s[n] : n \in DOMAIN s}

Truthy(s) == Len(s) > 0

StartsWith(s, p) ==
  /\ Len(p) <= Len(s)
  /\ \A n \in 1..Len(p) : s[n] = p[n]

EndsWith(s, p) ==
  /\ Len(p) <= Len(s)
  /\ \A n \in 1..Len(p) : s[Len(s) - Len(p) + n] = p[n]

\* p occurs in s at position n
OccursAt(s, p, n) ==
  /\ n >= 1
  /\ n + Len(p) - 1 <= Len(s)
  /\ \A m \in 1..Len(p) : s[n + m - 1] = p[m]

\* Python's `p in s`
Contains(s, p) == \E n \in 1..(Len(s) + 1) : OccursAt(s, p, n)

\* href.startswith('http'): the scheme tokens begin with these characters
StartsWithHttp(s) == Len(s) > 0 /\ s[1] \in {"http:", "https:"}

\* s.split('/')[-1]
LastSegment(s) ==
  LET slashes == {n \in DOMAIN s : s[n] = "/"}
      last == IF slashes = {} THEN 0
              ELSE CHOOSE n \in slashes : \A m \in slashes : m <= n
  IN  SubSeq(s, last + 1, Len(s))

\* s.replace('PMC', '')
RECURSIVE StripPMC(_)
StripPMC(s) ==
  IF s = <<>> THEN <<>>
  ELSE IF Head(s) = "PMC" THEN StripPMC(Tail(s))
  ELSE <<Head(s)>> \o StripPMC(Tail(s))

\* the runs of digits of the model, with their number of digits
DigitTokens == {"123", "12345", "1234567", "7654321", "123456789"}

DigitLen(t) ==
  CASE t = "123" -> 3
    [] t = "12345" -> 5
    [] t = "1234567" -> 7
    [] t = "7654321" -> 7
    [] t = "123456789" -> 9
    [] OTHER -> 0

IsDigits(t) == t \in DigitTokens

\* the tokens that read PMC once upper-cased
IsPMCUpper(t) == t \in {"PMC", "pmc"}

\* 'PMC' in t.upper(), for one token
TokenHasPMCUpper(t) == t \in {"PMC", "pmc", "pmc.ncbi.nlm.nih.gov"}

(* -------------------------------- URLs -------------------------------- *)
PMCRoot == <<"https:", "/", "/", "pmc.ncbi.nlm.nih.gov">>

PubMedRoot == <<"https:", "/", "/", "pubmed.ncbi.nlm.nih.gov">>

\* the code's three-way normalisation of an href to an absolute URL
MakeAbsolute(href) ==
  IF StartsWith(href, <<"/">>) THEN PMCRoot \o href
  ELSE IF ~StartsWithHttp(href) THEN PMCRoot \o <<"/">> \o href
  ELSE href

\* f'/articles/{id}/pdf/'
PdfFragment(id) == <<"/", "articles", "/">> \o id \o <<"/", "pdf", "/">>

\* f"https://pmc.ncbi.nlm.nih.gov/articles/{id}/pdf/{filename}"
CanonicalPdfUrl(id, filename) == PMCRoot \o PdfFragment(id) \o filename

\* f"https://pmc.ncbi.nlm.nih.gov/articles/{pmc_id}/"
CanonicalArticleUrl(id) == PMCRoot \o <<"/", "articles", "/">> \o id \o <<"/">>

\* f"https://pubmed.ncbi.nlm.nih.gov/{pmid}/"
PubMedUrl(pmid) == PubMedRoot \o <<"/", pmid, "/">>

(* ------------------------------- pages -------------------------------- *)
(* A page is the sequence of its <a> elements in document order.  A link  *)
(* has its href attribute, its visible text, its title attribute and the  *)
(* structural marks (classes of the element or of an ancestor, other      *)
(* attributes) that the code's selectors test.                            *)
Link(href, text, title, marks) ==
  [href |-> href, text |-> text, title |-> title, marks |-> marks]

Upper(t) ==
  CASE t = "pdf" -> "PDF"
    [] t = "pmc" -> "PMC"
    [] OTHER -> t

UpperSeq(s) == [n \in DOMAIN s |-> Upper(s[n])]

\* Playwright's :has-text("..."): a case-insensitive substring of the text
HasText(l, words) == Contains(UpperSeq(l.text), UpperSeq(words))

\* whether element l matches the selector sel; id fills the selectors the
\* code builds with an f-string
Matches(l, sel, id) ==
  CASE sel = "a" -> TRUE
    [] sel = "a[href]" -> TRUE
    [] sel = "a[href*=/articles/PMC]" ->
         Contains(l.href, <<"/", "articles", "/", "PMC">>)
    [] sel = "a[href*=pmc/articles]" ->
         Contains(l.href, <<"pmc", "/", "articles">>)
    [] sel = ".result-item a" -> "result-item" \in l.marks
    [] sel = ".rprt a" -> "rprt" \in l.marks
    [] sel = "a[data-article-id]" -> "data-article-id" \in l.marks
    [] sel = ".docsum-title a" -> "in-docsum-title" \in l.marks
    [] sel = "a.docsum-title" -> "docsum-title" \in l.marks
    [] sel = "article a" -> "article" \in l.marks
    [] sel = "a[href*=/pubmed/]" -> Contains(l.href, <<"/", "pubmed", "/">>)
    [] sel = "a[href^=/]" -> StartsWith(l.href, <<"/">>)
    [] sel = "a[href*=/articles/{id}/pdf/]" ->
         Contains(l.href, PdfFragment(id))
    [] sel = "a[href*=/pdf/]" -> Contains(l.href, <<"/", "pdf", "/">>)
    [] sel = "a[href$=.pdf]" -> EndsWith(l.href, <<".pdf">>)
    [] sel = "a[href*=.pdf]" -> Contains(l.href, <<".pdf">>)
    [] sel = "a[href*=.pdf], a[href*=/pdf/]" ->
         Contains(l.href, <<".pdf">>) \/ Contains(l.href, <<"/", "pdf", "/">>)
    [] sel = "a:has-text(PDF)" -> HasText(l, <<"PDF">>)
    [] sel = "a:has-text(PDF), a:has-text(pdf)" ->
         HasText(l, <<"PDF">>) \/ HasText(l, <<"pdf">>)
    [] sel = "a[title*=PDF]" -> Contains(l.title, <<"PDF">>)
    [] sel = "a[title*=pdf]" -> Contains(l.title, <<"pdf">>)
    [] sel = "fulltext-section" -> "fulltext-section" \in l.marks
    [] sel = "a[href*=PMC], a[href*=pmc]" ->
         \E n \in DOMAIN l.href : l.href[n] \in {"PMC", "pmc", "pmc.ncbi.nlm.nih.gov"}
    [] sel = "a[href*=pmc.ncbi.nlm.nih.gov]" ->
         Contains(l.href, <<"pmc.ncbi.nlm.nih.gov">>)
    [] sel = "a[href*=PMC]" -> Contains(l.href, <<"PMC">>)
    [] sel = "a:has-text(PMC)" -> HasText(l, <<"PMC">>)
    [] sel = "a:has-text(Free PMC)" -> HasText(l, <<"Free", "PMC">>)
    [] sel = "a:has-text(PubMed Central)" -> HasText(l, <<"PubMed", "Central">>)
    [] OTHER -> FALSE

\* page.query_selector_all(sel): the matching elements in document order
RECURSIVE QueryAll(_, _, _)
QueryAll(page, sel, id) ==
  IF page = <<>> THEN <<>>
  ELSE IF Matches(Head(page), sel, id)
       THEN <<Head(page)>> \o QueryAll(Tail(page), sel, id)
       ELSE QueryAll(Tail(page), sel, id)

\* variant: xs.append(x) without the membership test
AppendAlways(xs, x) == Append(xs, x)

\* `if x not in xs: xs.append(x)`
AppendNew(xs, x) == IF x \in Range(xs) THEN xs ELSE Append(xs, x)

\* variant: xs[-k:], the last k elements
TruncateTail(xs, k) == SubSeq(xs, IF k < Len(xs) THEN Len(xs) - k + 1 ELSE 1, Len(xs))

\* xs[:k]
Truncate(xs, k) == SubSeq(xs, 1, IF k < Len(xs) THEN k ELSE Len(xs))

(* ------------------- Result Enumerator, direct PMC --------------------- *)
PMCSearchSelectors ==
  << "a[href*=/articles/PMC]", "a[href*=pmc/articles]", ".result-item a",
     ".rprt a", "a[data-article-id]" >>

\* the filter of the targeted strategies
PMCAccepts(href) ==
  /\ Truthy(href)
  /\ (Contains(href, <<"PMC">>) \/ Contains(href, <<"/", "articles", "/">>))

\* the filter of the scan of every link
PMCScanAccepts(href) ==
  /\ Truthy(href)
  /\ \/ Contains(href, <<"/", "articles", "/", "PMC">>)
     \/ Contains(href, <<"pmc", "/", "articles">>)

\* the inner loop over the links of one strategy: normalise, deduplicate
RECURSIVE PMCCollect(_, _, _)
PMCCollect(links, acc, scan) ==
  IF links = <<>> THEN acc
  ELSE LET href == Head(links).href
           ok == IF scan THEN PMCScanAccepts(href) ELSE PMCAccepts(href)
       IN  PMCCollect(Tail(links),
                      IF ok THEN AppendNew(acc, MakeAbsolute(href)) ELSE acc,
                      scan)

\* variant: the loop over the selectors without its `break`
RECURSIVE PMCTargetedAll(_, _)
PMCTargetedAll(page, n) ==
  IF n > Len(PMCSearchSelectors) THEN <<>>
  ELSE PMCCollect(QueryAll(page, PMCSearchSelectors[n], <<>>), <<>>, FALSE)
         \o PMCTargetedAll(page, n + 1)

\* the loop over the selectors, from selector n on: stops at the first
\* selector after which result_links is not empty
RECURSIVE PMCTargeted(_, _)
PMCTargeted(page, n) ==
  IF n > Len(PMCSearchSelectors) THEN <<>>
  ELSE LET got == PMCCollect(QueryAll(page, PMCSearchSelectors[n], <<>>), <<>>, FALSE)
       IN  IF got # <<>> THEN got ELSE PMCTargeted(page, n + 1)

\* result_links before truncation
PMCResultLinks(page) ==
  LET targeted == PMCTargeted(page, 1)
  IN  IF targeted # <<>> THEN targeted
      ELSE PMCCollect(QueryAll(page, "a", <<>>), <<>>, TRUE)

(* --------------------- Result Enumerator, PubMed ----------------------- *)
PubMedSearchSelectors ==
  << ".docsum-title a", "a.docsum-title", ".rprt a", "article a",
     "a[href*=/pubmed/]", "a[href^=/]" >>

\* re.search(r'/(\d{6,})/?$', href): the digits, or "" without a match
PmidAtEnd(href) ==
  LET n == Len(href)
      d == IF n >= 1 /\ href[n] = "/" THEN n - 1 ELSE n
  IN  IF d >= 2 /\ IsDigits(href[d]) /\ DigitLen(href[d]) >= 6 /\ href[d - 1] = "/"
      THEN href[d] ELSE ""

\* the tokens that hold the characters "pubmed"
HasPubmed(t) == t \in {"pubmed", "pubmed.ncbi.nlm.nih.gov"}

\* re.search(r'pubmed[^/]*/(\d{6,})', href): from an occurrence of pubmed,
\* up to the next '/', which the digits must follow
PmidAfterPubmed(href) ==
  LET slashAfter(p) == {q \in DOMAIN href : q > p /\ href[q] = "/"}
      firstSlash(p) == CHOOSE q \in slashAfter(p) : \A r \in slashAfter(p) : q <= r
      hit(p) == /\ HasPubmed(href[p])
                /\ slashAfter(p) # {}
                /\ firstSlash(p) + 1 <= Len(href)
                /\ IsDigits(href[firstSlash(p) + 1])
                /\ DigitLen(href[firstSlash(p) + 1]) >= 6
      hits == {p \in DOMAIN href : hit(p)}
  IN  IF hits = {} THEN ""
      ELSE href[firstSlash(CHOOSE p \in hits : \A r \in hits : p <= r) + 1]

\* pmid_match = re.search(...) or re.search(...)
PmidOf(href) ==
  IF PmidAtEnd(href) # "" THEN PmidAtEnd(href) ELSE PmidAfterPubmed(href)

\* the inner loop of one targeted strategy
RECURSIVE PubMedCollect(_, _)
PubMedCollect(links, acc) ==
  IF links = <<>> THEN acc
  ELSE LET href == Head(links).href
           ok == Truthy(href) /\ PmidOf(href) # ""
       IN  PubMedCollect(Tail(links),
                         IF ok THEN AppendNew(acc, PubMedUrl(PmidOf(href))) ELSE acc)

\* the loop over the selectors from selector n on, pubmed_links being acc;
\* failing is the set of selectors whose query raises (caught: continue)
RECURSIVE PubMedTargeted(_, _, _, _)
PubMedTargeted(page, n, acc, failing) ==
  IF n > Len(PubMedSearchSelectors) THEN acc
  ELSE IF n \in failing THEN PubMedTargeted(page, n + 1, acc, failing)
  ELSE LET got == PubMedCollect(QueryAll(page, PubMedSearchSelectors[n], <<>>), acc)
       IN  IF got # <<>> THEN got ELSE PubMedTargeted(page, n + 1, got, failing)

\* the scan of every link: PMIDs of 6 to 8 digits, stopping at 2k links
RECURSIVE PubMedScan(_, _, _)
PubMedScan(links, acc, k) ==
  IF links = <<>> THEN acc
  ELSE LET href == Head(links).href
           pmid == PmidOf(href)
           ok == /\ Truthy(href)
                 /\ pmid # ""
                 /\ DigitLen(pmid) >= 6
                 /\ DigitLen(pmid) <= 8
                 /\ PubMedUrl(pmid) \notin Range(acc)
       IN  IF ok
           THEN IF Len(acc) + 1 >= k * 2 THEN Append(acc, PubMedUrl(pmid))
                ELSE PubMedScan(Tail(links), Append(acc, PubMedUrl(pmid)), k)
           ELSE PubMedScan(Tail(links), acc, k)

\* pubmed_links before truncation
PubMedResultLinks(page, k, failing) ==
  LET targeted == PubMedTargeted(page, 1, <<>>, failing)
  IN  IF targeted # <<>> THEN targeted
      ELSE PubMedScan(QueryAll(page, "a[href]", <<>>), <<>>, k)

(* ----------------------- Identifier Resolver --------------------------- *)
(* A record page has its links and the rest of its markup (text).  A link *)
(* inside the first element that matches                                  *)
(* '#full-view-heading, .full-text-links, [id*="full"], [class*="full-    *)
(* text"]' carries the mark "fulltext-section".                           *)
Min(S) == CHOOSE n \in S : \A m \in S : n <= m

\* the index of the first element of s that satisfies P, or 0
FirstIndex(s, P(_)) ==
  LET hits == {n \in DOMAIN s : P(s[n])}
  IN  IF hits = {} THEN 0 ELSE Min(hits)

\* re.search(r'PMC(\d+)', s, re.IGNORECASE) with at least minDigits digits:
\* f"PMC{group(1)}", or <<>> without a match
PmcIdIn(s, minDigits) ==
  LET hits == {n \in DOMAIN s : /\ IsPMCUpper(s[n])
                                /\ n + 1 <= Len(s)
                                /\ IsDigits(s[n + 1])
                                /\ DigitLen(s[n + 1]) >= minDigits}
  IN  IF hits = {} THEN <<>> ELSE <<"PMC", s[Min(hits) + 1]>>

\* 'PMC' in href.upper()
HasPMCUpper(href) == \E n \in DOMAIN href : TokenHasPMCUpper(href[n])

Unresolved == [id |-> <<>>, link |-> <<>>, tier |-> 0, href |-> <<>>]

\* tier 1: the links of the full text links section
ResolveScoped(page) ==
  LET inSection == QueryAll(page.links, "fulltext-section", <<>>)
      cands == QueryAll(inSection, "a[href*=PMC], a[href*=pmc]", <<>>)
      n == FirstIndex(cands, LAMBDA l : Truthy(l.href) /\ PmcIdIn(l.href, 1) # <<>>)
  IN  IF n = 0 THEN Unresolved
      ELSE [id |-> PmcIdIn(cands[n].href, 1), link |-> MakeAbsolute(cands[n].href),
            tier |-> 1, href |-> cands[n].href]

PMCLinkSelectors ==
  << "a[href*=/articles/PMC]", "a[href*=pmc.ncbi.nlm.nih.gov]", "a[href*=PMC]",
     "a:has-text(PMC)", "a:has-text(Free PMC)", "a:has-text(PubMed Central)" >>

\* tier 2: the selectors over the whole page, from selector n on
RECURSIVE ResolveUnscoped(_, _)
ResolveUnscoped(page, n) ==
  IF n > Len(PMCLinkSelectors) THEN Unresolved
  ELSE LET cands == QueryAll(page.links, PMCLinkSelectors[n], <<>>)
           m == FirstIndex(cands,
                  LAMBDA l : /\ Truthy(l.href)
                             /\ (HasPMCUpper(l.href) \/ Contains(l.href, <<"/", "articles", "/">>))
                             /\ PmcIdIn(l.href, 1) # <<>>)
       IN  IF m = 0 THEN ResolveUnscoped(page, n + 1)
           ELSE [id |-> PmcIdIn(cands[m].href, 1), link |-> MakeAbsolute(cands[m].href),
                 tier |-> 2, href |-> cands[m].href]

\* page.content(): the markup, the hrefs of the links in document order and
\* then the remaining text
RECURSIVE Hrefs(_)
Hrefs(links) ==
  IF links = <<>> THEN <<>>
  ELSE Head(links).href \o <<" ">> \o Hrefs(Tail(links))

PageContent(page) == Hrefs(page.links) \o page.text

\* tier 3: the regular expression over the markup
ResolveMarkup(page) ==
  LET id == PmcIdIn(PageContent(page), 6)
  IN  IF id = <<>> THEN Unresolved
      ELSE [id |-> id, link |-> CanonicalArticleUrl(id), tier |-> 3, href |-> <<>>]

\* a link of selector n of pmc_link_selectors yields an identifier
UnscopedFinds(page, n) ==
  \E m \in DOMAIN QueryAll(page.links, PMCLinkSelectors[n], <<>>) :
    LET href == QueryAll(page.links, PMCLinkSelectors[n], <<>>)[m].href
    IN  /\ Truthy(href)
        /\ (HasPMCUpper(href) \/ Contains(href, <<"/", "articles", "/">>))
        /\ PmcIdIn(href, 1) # <<>>

\* the queries of tier 2 from selector n on: `if pmc_id: break`
RECURSIVE UnscopedQueries(_, _)
UnscopedQueries(page, n) ==
  IF n > Len(PMCLinkSelectors) THEN <<>>
  ELSE IF UnscopedFinds(page, n) THEN <<[tier |-> 2, sel |-> n]>>
  ELSE <<[tier |-> 2, sel |-> n]>> \o UnscopedQueries(page, n + 1)

\* the queries and scans of the resolver on a record page, in order: tiers
\* 2 and 3 each run under `if not pmc_id`
ResolveQueries(page) ==
  LET scoped == ResolveScoped(page).tier # 0
      unscoped == scoped \/ ResolveUnscoped(page, 1).tier # 0
  IN  <<[tier |-> 1, sel |-> 1]>>
        \o (IF ~scoped THEN UnscopedQueries(page, 1) ELSE <<>>)
        \o (IF ~unscoped THEN <<[tier |-> 3, sel |-> 1]>> ELSE <<>>)

\* variant: the tiers without their `if not pmc_id` guards, a later tier
\* replacing what an earlier one found
ResolveLastWins(page) ==
  IF ResolveMarkup(page).tier # 0 THEN ResolveMarkup(page)
  ELSE IF ResolveUnscoped(page, 1).tier # 0 THEN ResolveUnscoped(page, 1)
  ELSE ResolveScoped(page)

\* pmc_id and pmc_link of a record page: the first tier that matches
Resolve(page) ==
  IF ResolveScoped(page).tier # 0 THEN ResolveScoped(page)
  ELSE IF ResolveUnscoped(page, 1).tier # 0 THEN ResolveUnscoped(page, 1)
  ELSE ResolveMarkup(page)

(* ------------------------- Document Locator ---------------------------- *)
NoPdfLink == [url |-> <<>>, tier |-> "none", href |-> <<>>]

Found(url, tier, href) == [url |-> url, tier |-> tier, href |-> href]

\* pmc_num = pmc_id.replace('PMC', '') if pmc_id.startswith('PMC') else pmc_id
PmcNum(id) == IF StartsWith(id, <<"PMC">>) THEN StripPMC(id) ELSE id

\* the if / elif / elif of the exact-pattern loop, for one href
ExactAccepts(href, id) ==
  LET full == MakeAbsolute(href)
  IN  /\ Truthy(href)
      /\ IF Contains(full, PdfFragment(id)) /\ EndsWith(full, <<".pdf">>) THEN TRUE
         ELSE IF StartsWith(id, <<"PMC">>)
              THEN Contains(full, PdfFragment(StripPMC(id))) /\ EndsWith(full, <<".pdf">>)
              ELSE Contains(full, PdfFragment(id))

\* priority 1: the exact pattern, full identifier first, numeric second
PMCLocateExact(page, id) ==
  LET byId == QueryAll(page, "a[href*=/articles/{id}/pdf/]", id)
      cands == IF byId # <<>> THEN byId
               ELSE QueryAll(page, "a[href*=/articles/{id}/pdf/]", PmcNum(id))
      n == FirstIndex(cands, LAMBDA l : ExactAccepts(l.href, id))
  IN  IF n = 0 THEN NoPdfLink
      ELSE Found(MakeAbsolute(cands[n].href), "exact", cands[n].href)

\* priority 1, second part: the links whose text names the format
PMCLocateText(page, id) ==
  LET cands == QueryAll(page, "a:has-text(PDF), a:has-text(pdf)", id)
      n == FirstIndex(cands,
             LAMBDA l : Truthy(l.href) /\ Contains(l.href, PdfFragment(id)))
  IN  IF n = 0 THEN NoPdfLink
      ELSE Found(MakeAbsolute(cands[n].href), "text", cands[n].href)

\* variant: priority 2 takes the link's own href, made absolute
PMCLocateLooseRaw(page, id) ==
  LET cands == QueryAll(page, "a[href*=.pdf], a[href*=/pdf/]", id)
      n == FirstIndex(cands,
             LAMBDA l : Truthy(l.href) /\ EndsWith(l.href, <<".pdf">>))
  IN  IF n = 0 THEN NoPdfLink
      ELSE Found(MakeAbsolute(cands[n].href), "loose", cands[n].href)

\* priority 2: any link that ends in .pdf, rebuilt on the canonical pattern
PMCLocateLoose(page, id) ==
  LET cands == QueryAll(page, "a[href*=.pdf], a[href*=/pdf/]", id)
      n == FirstIndex(cands,
             LAMBDA l : Truthy(l.href) /\ EndsWith(l.href, <<".pdf">>))
  IN  IF n = 0 THEN NoPdfLink
      ELSE IF ~Contains(cands[n].href, PdfFragment(id))
           THEN Found(CanonicalPdfUrl(id, LastSegment(cands[n].href)), "loose",
                      cands[n].href)
           ELSE Found(MakeAbsolute(cands[n].href), "loose", cands[n].href)

PdfButtonSelectors ==
  << "a[href*=/pdf/]", "a[href$=.pdf]", "a[href*=.pdf]", "a:has-text(PDF)",
     "a[title*=PDF]", "a[title*=pdf]" >>

\* priority 3: the first element of each generic selector, from selector n
RECURSIVE PMCLocateGeneric(_, _, _)
PMCLocateGeneric(page, id, n) ==
  IF n > Len(PdfButtonSelectors) THEN NoPdfLink
  ELSE LET cands == QueryAll(page, PdfButtonSelectors[n], id)
       IN  IF /\ cands # <<>>
              /\ Truthy(cands[1].href)
              /\ EndsWith(cands[1].href, <<".pdf">>)
           THEN Found(CanonicalPdfUrl(id, LastSegment(cands[1].href)), "generic",
                      cands[1].href)
           ELSE PMCLocateGeneric(page, id, n + 1)

\* variant: the tiers without their `if not pdf_link` guards, a later tier
\* replacing what an earlier one found
PMCLocateLastWins(page, id) ==
  IF ~Truthy(id) THEN NoPdfLink
  ELSE IF PMCLocateGeneric(page, id, 1).tier # "none" THEN PMCLocateGeneric(page, id, 1)
  ELSE IF PMCLocateLoose(page, id).tier # "none" THEN PMCLocateLoose(page, id)
  ELSE IF PMCLocateText(page, id).tier # "none" THEN PMCLocateText(page, id)
  ELSE PMCLocateExact(page, id)

\* pdf_link of download_pmc_papers
PMCLocate(page, id) ==
  IF ~Truthy(id) THEN NoPdfLink
  ELSE IF PMCLocateExact(page, id).tier # "none" THEN PMCLocateExact(page, id)
  ELSE IF PMCLocateText(page, id).tier # "none" THEN PMCLocateText(page, id)
  ELSE IF PMCLocateLoose(page, id).tier # "none" THEN PMCLocateLoose(page, id)
  ELSE PMCLocateGeneric(page, id, 1)

\* pdf_link_selectors of download_pubmed_free_fulltext_papers
PubMedPdfSelectors ==
  << "a[href*=/articles/{id}/pdf/]", "a[href*=/pdf/]", "a:has-text(PDF)",
     "a[href$=.pdf]", "a[title*=PDF]" >>

\* the loop over pdf_link_selectors, from selector n on
RECURSIVE PubMedLocateExact(_, _, _)
PubMedLocateExact(page, id, n) ==
  IF n > Len(PubMedPdfSelectors) THEN NoPdfLink
  ELSE LET cands == QueryAll(page, PubMedPdfSelectors[n], id)
           m == FirstIndex(cands,
                  LAMBDA l : /\ Truthy(l.href)
                             /\ Contains(l.href, <<".pdf">>)
                             /\ Contains(MakeAbsolute(l.href), PdfFragment(id))
                             /\ EndsWith(MakeAbsolute(l.href), <<".pdf">>))
       IN  IF m = 0 THEN PubMedLocateExact(page, id, n + 1)
           ELSE Found(MakeAbsolute(cands[m].href), "exact", cands[m].href)

\* "If PDF link not found, try to construct it"
PubMedLocateLoose(page, id) ==
  LET cands == QueryAll(page, "a[href*=.pdf]", id)
      n == FirstIndex(cands,
             LAMBDA l : Truthy(l.href) /\ EndsWith(l.href, <<".pdf">>))
  IN  IF n = 0 THEN NoPdfLink
      ELSE Found(CanonicalPdfUrl(id, LastSegment(cands[n].href)), "loose",
                 cands[n].href)

\* pdf_link of download_pubmed_free_fulltext_papers
PubMedLocate(page, id) ==
  IF PubMedLocateExact(page, id, 1).tier # "none" THEN PubMedLocateExact(page, id, 1)
  ELSE PubMedLocateLoose(page, id)

\* a page query of the Document Locator: its tier, and the selector's index
\* in the tier
Query(tier, n) == [tier |-> tier, sel |-> n]

\* page.query_selector(selector) of priority 3 has an element whose href
\* ends in .pdf
GenericFinds(page, id, n) ==
  LET cands == QueryAll(page, PdfButtonSelectors[n], id)
  IN  cands # <<>> /\ Truthy(cands[1].href) /\ EndsWith(cands[1].href, <<".pdf">>)

\* the queries of priority 3 from selector n on: `break` after the first hit
RECURSIVE PMCGenericQueries(_, _, _)
PMCGenericQueries(page, id, n) ==
  IF n > Len(PdfButtonSelectors) THEN <<>>
  ELSE IF GenericFinds(page, id, n) THEN <<Query("generic", n)>>
  ELSE <<Query("generic", n)>> \o PMCGenericQueries(page, id, n + 1)

\* the page queries download_pmc_papers issues to locate the document, in
\* order: each tier is guarded by `if not pdf_link`
PMCLocateQueries(page, id) ==
  IF ~Truthy(id) THEN <<>>
  ELSE LET byId == QueryAll(page, "a[href*=/articles/{id}/pdf/]", id)
           exact == PMCLocateExact(page, id).tier # "none"
           text == exact \/ PMCLocateText(page, id).tier # "none"
           loose == text \/ PMCLocateLoose(page, id).tier # "none"
       IN  <<Query("exact", 1)>>
             \o (IF byId = <<>> THEN <<Query("exact", 2)>> ELSE <<>>)
             \o (IF ~exact THEN <<Query("text", 1)>> ELSE <<>>)
             \o (IF ~text THEN <<Query("loose", 1)>> ELSE <<>>)
             \o (IF ~loose THEN PMCGenericQueries(page, id, 1) ELSE <<>>)

\* a link of selector n of pdf_link_selectors passes the pattern test
PubMedExactFinds(page, id, n) ==
  \E m \in DOMAIN QueryAll(page, PubMedPdfSelectors[n], id) :
    LET href == QueryAll(page, PubMedPdfSelectors[n], id)[m].href
    IN  /\ Truthy(href)
        /\ Contains(href, <<".pdf">>)
        /\ Contains(MakeAbsolute(href), PdfFragment(id))
        /\ EndsWith(MakeAbsolute(href), <<".pdf">>)

\* the queries of the loop over pdf_link_selectors from selector n on
RECURSIVE PubMedExactQueries(_, _, _)
PubMedExactQueries(page, id, n) ==
  IF n > Len(PubMedPdfSelectors) THEN <<>>
  ELSE IF PubMedExactFinds(page, id, n) THEN <<Query("exact", n)>>
  ELSE <<Query("exact", n)>> \o PubMedExactQueries(page, id, n + 1)

\* the page queries download_pubmed_free_fulltext_papers issues to locate
\* the document: the construction runs `if not pdf_link and pmc_id`
PubMedLocateQueries(page, id) ==
  PubMedExactQueries(page, id, 1)
    \o (IF PubMedLocateExact(page, id, 1).tier = "none" /\ Truthy(id)
        THEN <<Query("loose", 1)>> ELSE <<>>)

\* variant: the last segment of the URL is the filename as it is
DerivedFilenameRaw(url, id) == LastSegment(url)

\* the filename a located document is saved under, before any suggestion
DerivedFilename(url, id) ==
  IF EndsWith(LastSegment(url), <<".pdf">>) THEN LastSegment(url)
  ELSE id \o <<".pdf">>

(* ---------------------------- the web ---------------------------------- *)
(* What the sites may serve: the pages are all sequences, up to a bound,  *)
(* of the links below.                                                    *)
RECURSIVE SeqsUpTo(_, _)
SeqsUpTo(S, n) ==
  IF n = 0 THEN {<<>>}
  ELSE LET shorter == SeqsUpTo(S, n - 1)
       IN  shorter \cup {Append(q, x) : q \in {r \in shorter : Len(r) = n - 1}, x \in S}

PMCSearchLinkUniverse ==
  { Link(<<"/", "articles", "/", "PMC", "1234567">>, <<"Title">>, <<>>, {}),
    Link(<<"/", "articles", "/", "PMC", "7654321", "/">>, <<"Title">>, <<>>, {}),
    Link(<<"https:", "/", "/", "pmc.ncbi.nlm.nih.gov", "/", "articles", "/", "PMC", "1234567">>,
         <<"Title">>, <<>>, {"rprt"}),
    Link(<<"articles", "/", "PMC", "1234567">>, <<"Title">>, <<>>, {"result-item"}),
    Link(<<"/", "articles", "/", "1234567">>, <<"Title">>, <<>>, {"rprt"}),
    Link(<<>>, <<"Title">>, <<>>, {"data-article-id"}) }

PubMedSearchLinkUniverse ==
  { Link(<<"/", "1234567", "/">>, <<"Title">>, <<>>, {"in-docsum-title"}),
    Link(<<"/", "7654321", "/">>, <<"Title">>, <<>>, {"in-docsum-title"}),
    Link(<<"https:", "/", "/", "pubmed.ncbi.nlm.nih.gov", "/", "1234567", "/">>,
         <<"Title">>, <<>>, {"article"}),
    Link(<<"/", "pubmed", "/", "123456789">>, <<"Title">>, <<>>, {}),
    Link(<<"/", "12345", "/">>, <<"Title">>, <<>>, {"rprt"}) }

SearchPages(m) ==
  SeqsUpTo(IF m = "pmc" THEN PMCSearchLinkUniverse ELSE PubMedSearchLinkUniverse,
           MaxSearchLinks)

RecordLinkUniverse ==
  { Link(<<"https:", "/", "/", "www.ncbi.nlm.nih.gov", "/", "pmc", "/", "articles", "/",
           "PMC", "1234567", "/">>, <<"Free", "PMC", "article">>, <<>>,
         {"fulltext-section"}),
    Link(<<"/", "articles", "/", "PMC", "7654321">>, <<"PMC">>, <<>>, {}),
    Link(<<"articles", "/", "pmc", "123", "/">>, <<"PubMed", "Central">>, <<>>, {}),
    Link(<<"https:", "/", "/", "doi.org", "/", "abc">>, <<"Publisher">>, <<>>,
         {"fulltext-section"}),
    Link(<<>>, <<"PMC">>, <<>>, {}) }

RecordTexts ==
  { <<>>, <<"PMCID:", "PMC", "7654321">>, <<"PMC", "123">> }

RecordPages ==
  {[links |-> ls, text |-> t] : ls \in SeqsUpTo(RecordLinkUniverse, MaxPageLinks),
                                t \in RecordTexts}

ArticleLinkUniverse ==
  { Link(<<"/", "articles", "/", "PMC", "1234567", "/", "pdf", "/", "main", ".pdf">>,
         <<"PDF">>, <<>>, {}),
    Link(<<"/", "articles", "/", "1234567", "/", "pdf", "/", "main", ".pdf">>,
         <<"View">>, <<>>, {}),
    Link(<<"/", "articles", "/", "PMC", "1234567", "/", "pdf", "/">>, <<"pdf">>, <<>>, {}),
    Link(<<"/", "pdf", "/", "alt", ".pdf">>, <<"Download">>, <<"PDF">>, {}),
    Link(<<"/", "articles", "/", "1234567", "/", "pdf", "/">>, <<"View">>, <<>>, {}),
    Link(<<"/", "about">>, <<"PDF">>, <<>>, {}) }

ArticlePages == SeqsUpTo(ArticleLinkUniverse, MaxPageLinks)

\* what a download event or a response body may hold
Contents == {"pdf", "html"}

\* download.suggested_filename
SuggestedFilenames == {<<>>, <<"dl", ".pdf">>, <<"dl", ".bin">>}

\* the document that the page holds after a page.goto: the links that the
\* queries see, and the text that page.content() gives for a record page
Document(links) == [links |-> links, text |-> <<>>]

\* the blank page of context.new_page(); also stands for a document that
\* is not read again
NoDocument == Document(<<>>)

\* download_path / filename
PathOf(filename) == <<"downloads", "/">> \o filename

(* --------------------------- the invocation ---------------------------- *)
VARIABLES
  mode,              \* "pmc": download_pmc_papers, "pubmed": the PubMed flow
  k,                 \* the result limit
  pc,                \* the place in the function
  status,            \* "running", "returned" or "raised" (to the caller)
  playwright,        \* the `with sync_playwright()` block
  browser,           \* "none", "open" or "closed" (browser.close() was called)
  launches,          \* calls of chromium.launch
  closes,            \* calls of browser.close
  search_requests,   \* page.goto calls for the search URL
  enum_failed,       \* the enumeration failed (navigation, no link, snapshot)
  snapshots,         \* the debug files written
  found,             \* result_links / pubmed_links before the truncation
  result_links,      \* result_links / pubmed_links, truncated
  i,                 \* the loop index over result_links
  pmc_id,            \* of the article in progress
  resolved,          \* the Identifier Resolver's result (PubMed flow)
  page,              \* the document loaded in the page: the search page, the
                     \* record page or the article page
  pdf_link,          \* the Document Locator's result
  filename,          \* the name the file is saved under
  sel,               \* the index in the selector list of the click strategy
  pdf_downloaded,    \* the flag of the fetcher
  log,               \* the requests issued so far by the iteration in progress
  outcome,           \* how each candidate processed so far ended
  downloaded_files,  \* the list that is returned
  disk,              \* the files written: path -> content
  returned,          \* the value returned to the caller
  search_terms,      \* batch_download_papers: its list of phrases
  term_i,            \* batch_download_papers: the loop index over search_terms
  results,           \* batch_download_papers: the dictionary term -> list of paths
  calls,             \* batch_download_papers: how the call for each phrase ended
  batch_pc,          \* batch_download_papers: the place in the function
  batch_status       \* batch_download_papers: "idle", "running", "returned", "raised"

batchVars == <<search_terms, term_i, results, calls, batch_pc, batch_status>>

invocationVars ==
  << mode, k, pc, status, playwright, browser, launches, closes, search_requests,
     enum_failed, snapshots, found, result_links, i, pmc_id, resolved, page, pdf_link,
     filename, sel, pdf_downloaded, log, outcome, downloaded_files, disk, returned >>

vars == <<invocationVars, batchVars>>

sessionVars == <<playwright, browser, launches, closes>>

searchVars == <<search_requests, enum_failed, snapshots, found, result_links>>

articleVars == <<pmc_id, resolved, page, pdf_link, filename, sel, pdf_downloaded>>

fileVars == <<downloaded_files, disk>>

\* a request: what was asked, of which URL or element, by which selector of
\* the click strategy, what came back, and whether a file was saved from it
\* (what came back is the content of the download for a click or a
\* navigation that got one)
Event(op, target, n, res, saved) ==
  [op |-> op, target |-> target, sel |-> n, res |-> res, saved |-> saved]

\* variant: a path that exists is not written again
WriteFileKeepsFirst(d, path, content) ==
  IF \E f \in d : f.path = path THEN d
  ELSE d \cup {[path |-> path, content |-> content]}

\* f.write / download.save_as: the last write to a path wins
WriteFile(d, path, content) ==
  {f \in d : f.path # path} \cup {[path |-> path, content |-> content]}

\* the state in which download_pmc_papers or
\* download_pubmed_free_fulltext_papers is entered
Called ==
  /\ mode \in {"pmc", "pubmed"}
  /\ k \in 0..MaxK
  /\ pc = "mkdir"
  /\ status = "running"
  /\ playwright = "none"
  /\ browser = "none"
  /\ launches = 0
  /\ closes = 0
  /\ search_requests = 0
  /\ enum_failed = FALSE
  /\ snapshots = {}
  /\ found = <<>>
  /\ result_links = <<>>
  /\ i = 0
  /\ pmc_id = <<>>
  /\ resolved = Unresolved
  /\ page = NoDocument
  /\ pdf_link = NoPdfLink
  /\ filename = <<>>
  /\ sel = 0
  /\ pdf_downloaded = FALSE
  /\ log = <<>>
  /\ outcome = <<>>
  /\ downloaded_files = <<>>
  /\ disk = {}
  /\ returned = <<>>

\* the function is called directly (the __main__ block of
\* paper_downloader.py), not by batch_download_papers
Direct ==
  /\ search_terms = <<>>
  /\ term_i = 0
  /\ results = <<>>
  /\ calls = <<>>
  /\ batch_pc = "idle"
  /\ batch_status = "idle"

Init == Called /\ Direct

\* an exception leaves the function: past the `with` block when it was entered
Raise ==
  /\ status' = "raised"
  /\ pc' = "done"
  /\ playwright' = IF playwright = "started" THEN "stopped" ELSE playwright

\* download_path.mkdir(exist_ok=True), before any try
Mkdir ==
  /\ pc = "mkdir"
  /\ \E ok \in BOOLEAN :
       IF ok THEN /\ pc' = "launch"
                  /\ UNCHANGED <<status, playwright>>
       ELSE Raise
  /\ UNCHANGED <<batchVars, mode, k, browser, launches, closes, searchVars, i, articleVars, log,
                 outcome, fileVars, returned>>

\* with sync_playwright() as p: browser = p.chromium.launch(...)
Launch ==
  /\ pc = "launch"
  /\ \E ok \in BOOLEAN :
       IF ok THEN /\ pc' = "context"
                  /\ playwright' = "started"
                  /\ browser' = "open"
                  /\ launches' = launches + 1
                  /\ UNCHANGED status
       ELSE /\ status' = "raised"
            /\ pc' = "done"
            /\ playwright' = "stopped"
            /\ UNCHANGED <<browser, launches>>
  /\ UNCHANGED <<batchVars, mode, k, closes, searchVars, i, articleVars, log, outcome, fileVars,
                 returned>>

\* context = browser.new_context(...); page = context.new_page(): after the
\* launch and before the try whose finally closes the browser
NewContext ==
  /\ pc = "context"
  /\ \E ok \in BOOLEAN :
       IF ok THEN /\ pc' = "search"
                  /\ UNCHANGED <<status, playwright>>
       ELSE Raise
  /\ UNCHANGED <<batchVars, mode, k, browser, launches, closes, searchVars, i, articleVars, log,
                 outcome, fileVars, returned>>

\* what follows the enumeration: the debug snapshot, or the loop
Enumerated(links) ==
  IF links = <<>>
  THEN /\ pc' = "snapshot"
       /\ enum_failed' = TRUE
       /\ UNCHANGED <<found, result_links>>
  ELSE /\ pc' = "next"
       /\ found' = links
       /\ result_links' = Truncate(links, k)
       /\ UNCHANGED enum_failed

\* download_pmc_papers: page.goto(search_url) and the enumeration
SearchPMC ==
  /\ pc = "search"
  /\ mode = "pmc"
  /\ search_requests' = search_requests + 1
  /\ \E ok \in BOOLEAN :
       IF ok THEN \E sp \in SearchPages("pmc") :
                    /\ page' = Document(sp)
                    /\ Enumerated(PMCResultLinks(sp))
       ELSE /\ pc' = "except"
            /\ enum_failed' = TRUE
            /\ UNCHANGED <<found, result_links, page>>
  /\ UNCHANGED <<batchVars, mode, k, status, sessionVars, snapshots, i, pmc_id, resolved, pdf_link,
                 filename, sel, pdf_downloaded, log, outcome, fileVars, returned>>

\* the sets of selectors whose query may raise in the PubMed enumeration
FailingSelectors == {{}, {1}, 1..6}

\* download_pubmed_free_fulltext_papers: the first page.goto(search_url); a
\* failure is caught and answered by a second goto
SearchPubMed ==
  /\ pc = "search"
  /\ mode = "pubmed"
  /\ search_requests' = search_requests + 1
  /\ \E ok \in BOOLEAN :
       IF ok THEN \E sp \in SearchPages("pubmed"), failing \in FailingSelectors :
                    /\ page' = Document(sp)
                    /\ Enumerated(PubMedResultLinks(sp, k, failing))
       ELSE /\ pc' = "search_retry"
            /\ UNCHANGED <<enum_failed, found, result_links, page>>
  /\ UNCHANGED <<batchVars, mode, k, status, sessionVars, snapshots, i, pmc_id, resolved, pdf_link,
                 filename, sel, pdf_downloaded, log, outcome, fileVars, returned>>

\* page.goto(search_url, wait_until="load") in the except branch
SearchRetry ==
  /\ pc = "search_retry"
  /\ search_requests' = search_requests + 1
  /\ \E ok \in BOOLEAN :
       IF ok THEN \E sp \in SearchPages("pubmed"), failing \in FailingSelectors :
                    /\ page' = Document(sp)
                    /\ Enumerated(PubMedResultLinks(sp, k, failing))
       ELSE /\ pc' = "except"
            /\ enum_failed' = TRUE
            /\ UNCHANGED <<found, result_links, page>>
  /\ UNCHANGED <<batchVars, mode, k, status, sessionVars, snapshots, i, pmc_id, resolved, pdf_link,
                 filename, sel, pdf_downloaded, log, outcome, fileVars, returned>>

\* the debug files of each flow, in the order they are written
DebugFiles(m) ==
  IF m = "pmc" THEN <<"debug_search_page.png">>
  ELSE <<"debug_pubmed_search_page.png", "debug_pubmed_search_page.html">>

\* "No results found": the files are written, then `return downloaded_files`
\* inside the try; a write that raises goes to the outer handler
Snapshot ==
  /\ pc = "snapshot"
  /\ \E n \in 0..Len(DebugFiles(mode)) :
       /\ snapshots' = snapshots \cup {DebugFiles(mode)[m] : m \in 1..n}
       /\ pc' = IF n = Len(DebugFiles(mode)) THEN "close" ELSE "except"
  /\ UNCHANGED <<batchVars, mode, k, status, sessionVars, search_requests, enum_failed, found,
                 result_links, i, articleVars, log, outcome, fileVars, returned>>

\* variant: the outer handler lets the exception go on to the caller, past
\* the finally clause and the with block
OuterExceptReraises ==
  /\ pc = "except"
  /\ pc' = "done"
  /\ status' = "raised"
  /\ browser' = "closed"
  /\ closes' = closes + 1
  /\ playwright' = "stopped"
  /\ UNCHANGED <<batchVars, mode, k, launches, searchVars, i, articleVars, log, outcome,
                 fileVars, returned>>

\* variant: the outer handler starts the search again
OuterExceptRetries ==
  /\ pc = "except"
  /\ pc' = "search"
  /\ search_requests' = 0
  /\ enum_failed' = FALSE
  /\ UNCHANGED <<batchVars, mode, k, status, sessionVars, snapshots, found, result_links, i,
                 articleVars, log, outcome, fileVars, returned>>

\* except Exception as e: print(...)
OuterExcept ==
  /\ pc = "except"
  /\ pc' = "close"
  /\ UNCHANGED <<batchVars, mode, k, status, sessionVars, searchVars, i, articleVars, log, outcome,
                 fileVars, returned>>

\* finally: browser.close()
Close ==
  /\ pc = "close"
  /\ browser' = "closed"
  /\ closes' = closes + 1
  /\ pc' = "return"
  /\ UNCHANGED <<batchVars, mode, k, status, playwright, launches, searchVars, i, articleVars, log,
                 outcome, fileVars, returned>>

\* the end of the with block and `return downloaded_files`
Return ==
  /\ pc = "return"
  /\ playwright' = "stopped"
  /\ returned' = downloaded_files
  /\ status' = "returned"
  /\ pc' = "done"
  /\ UNCHANGED <<batchVars, mode, k, browser, launches, closes, searchVars, i, articleVars, log,
                 outcome, fileVars>>

(* --------------------------- the article loop -------------------------- *)
(* The locals of an iteration (the page that is loaded, pdf_link,         *)
(* filename, ...) are reassigned before they are read again; the model    *)
(* clears them when the iteration has no further use of them.             *)
NoLocals ==
  /\ pmc_id' = <<>>
  /\ resolved' = Unresolved
  /\ page' = NoDocument
  /\ pdf_link' = NoPdfLink
  /\ filename' = <<>>
  /\ sel' = 0

\* for i, url in enumerate(links, 1): the next candidate, or the end of the
\* loop; download_pmc_papers derives pmc_id from the URL before its goto.
\* The search page is not read again once the loop has started.
NextArticle ==
  /\ pc = "next"
  /\ IF i < Len(result_links)
     THEN /\ i' = i + 1
          /\ pmc_id' = IF mode = "pmc" THEN LastSegment(result_links[i + 1]) ELSE <<>>
          /\ pc' = IF mode = "pmc" THEN "article_nav" ELSE "record_nav"
     ELSE /\ pc' = "close"
          /\ UNCHANGED <<i, pmc_id>>
  /\ pdf_downloaded' = FALSE
  /\ log' = <<>>
  /\ found' = <<>>
  /\ page' = NoDocument
  /\ UNCHANGED <<batchVars, mode, k, status, sessionVars, search_requests, enum_failed, snapshots,
                 result_links, resolved, pdf_link, filename, sel, outcome, fileVars,
                 returned>>

\* variant: no per-article handler, the exception reaches the outer handler
ArticleErrorEscapes ==
  /\ outcome' = Append(outcome, "error")
  /\ pc' = "except"
  /\ NoLocals

\* variant: a record without PMCID ends the loop instead of `continue`
SkipCandidateBreaks ==
  /\ outcome' = Append(outcome, "skipped")
  /\ pc' = "close"
  /\ NoLocals

\* except Exception as e: print(...); continue -- of the per-article try
ArticleError ==
  /\ outcome' = Append(outcome, "error")
  /\ pc' = "next"
  /\ NoLocals

\* "Could not find PMCID ... skipping": continue
SkipCandidate ==
  /\ outcome' = Append(outcome, "skipped")
  /\ pc' = "next"
  /\ NoLocals

\* the PubMed flow: page.goto(pubmed_url), then the three resolver tiers;
\* without a PMCID the candidate is skipped with `continue`
RecordNav ==
  /\ pc = "record_nav"
  /\ \E ok \in BOOLEAN :
       IF ok
       THEN \E rp \in RecordPages :
              /\ log' = Append(log, Event("goto_record", result_links[i], 0, "loaded", FALSE))
              /\ IF Resolve(rp).tier = 0
                 THEN SkipCandidate
                 ELSE /\ resolved' = Resolve(rp)
                      /\ pmc_id' = Resolve(rp).id
                      /\ page' = rp
                      /\ pc' = "article_nav"
                      /\ UNCHANGED <<outcome, pdf_link, filename, sel>>
       ELSE /\ log' = Append(log, Event("goto_record", result_links[i], 0, "failed", FALSE))
            /\ ArticleError
  /\ UNCHANGED <<batchVars, mode, k, status, sessionVars, searchVars, i, pdf_downloaded, fileVars,
                 returned>>

\* the URL of the article page that is loaded
ArticleUrl == IF mode = "pmc" THEN result_links[i] ELSE resolved.link

\* the Document Locator of the flow
Locate(pg, id) == IF mode = "pmc" THEN PMCLocate(pg, id) ELSE PubMedLocate(pg, id)

\* page.goto(article page), then the Document Locator; "Could not find PDF
\* link" goes on to the delay
ArticleNav ==
  /\ pc = "article_nav"
  /\ \E ok \in BOOLEAN :
       IF ok
       THEN \E pg \in ArticlePages :
              /\ log' = Append(log, Event("goto_article", ArticleUrl, 0, "loaded", FALSE))
              /\ IF Truthy(Locate(pg, pmc_id).url)
                 THEN /\ page' = Document(pg)
                      /\ pdf_link' = Locate(pg, pmc_id)
                      /\ filename' = DerivedFilename(Locate(pg, pmc_id).url, pmc_id)
                      /\ sel' = 1
                      /\ pc' = "click"
                      /\ UNCHANGED <<outcome, pmc_id, resolved>>
                 ELSE /\ outcome' = Append(outcome, "nolink")
                      /\ pc' = "delay"
                      /\ NoLocals
       ELSE /\ log' = Append(log, Event("goto_article", ArticleUrl, 0, "failed", FALSE))
            /\ ArticleError
  /\ UNCHANGED <<batchVars, mode, k, status, sessionVars, searchVars, i, pdf_downloaded, fileVars,
                 returned>>

(* --------------------------- Document Fetcher -------------------------- *)
\* pdf_link_selectors of the click strategy
ClickSelectors ==
  IF mode = "pmc"
  THEN << "a[href*=/articles/{id}/pdf/]", "a[href*=/pdf/]", "a:has-text(PDF)",
          "a[href$=.pdf]" >>
  ELSE PubMedPdfSelectors

\* the selectors from sel on for which page.query_selector finds an element
Clickable == {n \in sel..Len(ClickSelectors) : QueryAll(page.links, ClickSelectors[n], pmc_id) # <<>>}

\* variant: the flag is not raised after the append
SaveWithoutFlag(name, content) ==
  /\ disk' = WriteFile(disk, PathOf(name), content)
  /\ downloaded_files' = Append(downloaded_files, PathOf(name))
  /\ pdf_downloaded' = FALSE

\* variant: the path is put at the head of the list
SaveFirst(name, content) ==
  /\ disk' = WriteFile(disk, PathOf(name), content)
  /\ downloaded_files' = <<PathOf(name)>> \o downloaded_files
  /\ pdf_downloaded' = TRUE

\* file_path = download_path / filename; save; downloaded_files.append(...);
\* pdf_downloaded = True
Save(name, content) ==
  /\ disk' = WriteFile(disk, PathOf(name), content)
  /\ downloaded_files' = Append(downloaded_files, PathOf(name))
  /\ pdf_downloaded' = TRUE

\* method 1: click the first element of the next selector that has one and
\* wait for the download; a timeout or an exception goes to the next
\* selector, a saved file breaks out of the loop
Click ==
  /\ pc = "click"
  /\ Clickable # {}
  /\ LET n == Min(Clickable)
         element == QueryAll(page.links, ClickSelectors[n], pmc_id)[1]
     IN  \E got \in BOOLEAN, content \in Contents, suggested \in SuggestedFilenames,
            saved \in BOOLEAN :
           LET name == IF got /\ Truthy(suggested) /\ EndsWith(suggested, <<".pdf">>)
                       THEN suggested ELSE filename
           IN  /\ filename' = name
               /\ IF got /\ saved
                  THEN /\ log' = Append(log, Event("click", element.href, n, content, TRUE))
                       /\ sel' = n
                       /\ Save(name, content)
                       /\ pc' = "get"
                  ELSE /\ log' = Append(log, Event("click", element.href, n, "failed", FALSE))
                       /\ sel' = n + 1
                       /\ UNCHANGED <<pdf_downloaded, fileVars, pc>>
  /\ UNCHANGED <<batchVars, mode, k, status, sessionVars, searchVars, i, pmc_id, resolved, page,
                 pdf_link, outcome, returned>>

\* the selector loop ends without a download
ClickExhausted ==
  /\ pc = "click"
  /\ Clickable = {}
  /\ sel' = Len(ClickSelectors) + 1
  /\ pc' = "get"
  /\ UNCHANGED <<batchVars, mode, k, status, sessionVars, searchVars, i, pmc_id, resolved, page,
                 pdf_link, filename, pdf_downloaded, log, outcome, fileVars, returned>>

\* what context.request.get(pdf_link) may bring: an exception or a status
\* that is not OK, or status OK with a body that is HTML or a PDF
GetResults == {"error", "ok_html", "ok_pdf"}

\* variant: response.ok alone, without the signature test
GetSucceedsOnStatus(r) == r \in {"ok_html", "ok_pdf"}

\* response.ok and body.startswith(b'%PDF')
GetSucceeds(r) == r = "ok_pdf"

\* variant: method 2 runs whatever method 1 did
GetUnguarded == TRUE

\* `if not pdf_downloaded:` before method 2
GetGuard == ~pdf_downloaded

\* method 2: the request API; only a body with the signature is written
Get ==
  /\ pc = "get"
  /\ pc' = "nav"
  /\ IF GetGuard
     THEN \E r \in GetResults :
            IF GetSucceeds(r)
            THEN /\ log' = Append(log, Event("get", pdf_link.url, 0, r, TRUE))
                 /\ Save(filename, IF r = "ok_pdf" THEN "pdf" ELSE "html")
            ELSE /\ log' = Append(log, Event("get", pdf_link.url, 0, r, FALSE))
                 /\ UNCHANGED <<pdf_downloaded, fileVars>>
     ELSE UNCHANGED <<log, pdf_downloaded, fileVars>>
  /\ UNCHANGED <<batchVars, mode, k, status, sessionVars, searchVars, i, pmc_id, resolved, page,
                 pdf_link, filename, sel, outcome, returned>>

\* variant: method 3 runs whatever the earlier methods did
NavUnguarded == TRUE

\* variant: method 3 is never attempted
NavNever == FALSE

\* `if not pdf_downloaded:` before method 3
NavGuard == ~pdf_downloaded

\* method 3: page.goto(pdf_link) inside expect_download
NavDownload ==
  /\ pc = "nav"
  /\ pc' = "fetch_end"
  /\ IF NavGuard
     THEN \E got \in BOOLEAN, content \in Contents :
            IF got
            THEN /\ log' = Append(log, Event("goto_pdf", pdf_link.url, 0, content, TRUE))
                 /\ Save(filename, content)
            ELSE /\ log' = Append(log, Event("goto_pdf", pdf_link.url, 0, "timeout", FALSE))
                 /\ UNCHANGED <<pdf_downloaded, fileVars>>
     ELSE UNCHANGED <<log, pdf_downloaded, fileVars>>
  /\ UNCHANGED <<batchVars, mode, k, status, sessionVars, searchVars, i, pmc_id, resolved, page,
                 pdf_link, filename, sel, outcome, returned>>

\* `if not pdf_downloaded:` "All download methods failed" is raised and
\* caught by the fetcher's own except (PMC), or printed (PubMed)
FetchEnd ==
  /\ pc = "fetch_end"
  /\ outcome' = Append(outcome, IF pdf_downloaded THEN "saved" ELSE "failed")
  /\ pc' = "delay"
  /\ NoLocals
  /\ log' = <<>>
  /\ UNCHANGED <<batchVars, mode, k, status, sessionVars, searchVars, i, pdf_downloaded, fileVars,
                 returned>>

\* time.sleep(...) at the end of the per-article try
Delay ==
  /\ pc = "delay"
  /\ pc' = "next"
  /\ UNCHANGED <<batchVars, mode, k, status, sessionVars, searchVars, i, articleVars, log, outcome,
                 fileVars, returned>>

Next ==
  \/ Mkdir
  \/ Launch
  \/ NewContext
  \/ SearchPMC
  \/ SearchPubMed
  \/ SearchRetry
  \/ Snapshot
  \/ OuterExcept
  \/ Close
  \/ Return
  \/ NextArticle
  \/ RecordNav
  \/ ArticleNav
  \/ Click
  \/ ClickExhausted
  \/ Get
  \/ NavDownload
  \/ FetchEnd
  \/ Delay

Spec == Init /\ [][Next]_vars

(* The calls of the sync API block the function until they return or time *)
(* out (timeout=5000, 10000, 15000 and the timeouts of expect_download),  *)
(* and nothing else runs in the process: a step that can be taken is      *)
(* taken.  Every step of Next changes the place in the function, the      *)
(* selector index or the log of requests.  The PubMed flow, whose record  *)
(* pages multiply the states, is taken with limits below MaxK; its loop   *)
(* over the candidates is the `for` of the PMC flow.                      *)
FairInit == Init /\ (mode = "pubmed" => k < MaxK)

FairSpec == FairInit /\ [][Next]_vars /\ WF_vars(Next)

(* ------------------------ batch_download_papers ------------------------ *)
(* batch_downloader.py: one call of batch_download_papers.  The call it   *)
(* makes for each phrase is taken by what comes back from it: the list    *)
(* that download_pmc_papers or download_pubmed_free_fulltext_papers       *)
(* returns (Return), or the exception that leaves it (Raise).  mode and k *)
(* are the arguments use_pubmed and k.                                    *)
\* the phrases of a batch
Terms == {<<"a">>, <<"a", " ", "b">>, <<"a", "/", "b">>, <<"a", "_", "b">>}

\* term.replace(' ', '_').replace('/', '_')
SafeTerm(term) ==
  [n \in DOMAIN term |-> IF term[n] \in {" ", "/"} THEN "_" ELSE term[n]]

\* os.path.join(base_download_dir, safe_term)
DownloadDir(term) == <<"downloads", "/">> \o SafeTerm(term)

\* the lists a call may return for one phrase: up to k paths in its directory
ReturnedLists(term, limit) ==
  LET names == <<"main.pdf", "alt.pdf", "dl.pdf">>
  IN  {[j \in 1..n |-> DownloadDir(term) \o <<"/", names[j]>>] : n \in 0..limit}

\* results[term] = value
Assign(d, term, value) ==
  [x \in DOMAIN d \cup {term} |-> IF x = term THEN value ELSE d[x]]

BatchInit ==
  /\ Called
  /\ search_terms \in SeqsUpTo(Terms, MaxTerms)
  /\ term_i = 0
  /\ results = <<>>
  /\ calls = <<>>
  /\ batch_pc = "loop"
  /\ batch_status = "running"

\* for i, term in enumerate(search_terms, 1): the next phrase, or the summary
BatchNextTerm ==
  /\ batch_pc = "loop"
  /\ IF term_i < Len(search_terms)
     THEN /\ term_i' = term_i + 1
          /\ batch_pc' = "call"
     ELSE /\ batch_pc' = "summary"
          /\ UNCHANGED term_i
  /\ UNCHANGED <<invocationVars, search_terms, results, calls, batch_status>>

\* results[term] = downloaded_files
BatchStore(term, files) ==
  /\ results' = Assign(results, term, files)
  /\ calls' = Append(calls, "returned")
  /\ batch_pc' = "loop"
  /\ UNCHANGED batch_status

\* variant: no handler around the call, the exception leaves the batch
BatchExceptPropagates(term) ==
  /\ calls' = Append(calls, "raised")
  /\ batch_pc' = "done"
  /\ batch_status' = "raised"
  /\ UNCHANGED results

\* except Exception as e: print(...); results[term] = []
BatchExcept(term) ==
  /\ results' = Assign(results, term, <<>>)
  /\ calls' = Append(calls, "raised")
  /\ batch_pc' = "loop"
  /\ UNCHANGED batch_status

\* the try block of one phrase: the call returns its list, or raises
BatchCall ==
  /\ batch_pc = "call"
  /\ LET term == search_terms[term_i]
     IN  \E raised \in BOOLEAN :
           IF raised THEN BatchExcept(term)
           ELSE \E files \in ReturnedLists(term, k) : BatchStore(term, files)
  /\ UNCHANGED <<invocationVars, search_terms, term_i>>

\* the summary loop over results.items() and `return results`
BatchReturn ==
  /\ batch_pc = "summary"
  /\ batch_pc' = "done"
  /\ batch_status' = "returned"
  /\ UNCHANGED <<invocationVars, search_terms, term_i, results, calls>>

BatchNext ==
  \/ BatchNextTerm
  \/ BatchCall
  \/ BatchReturn

BatchSpec == BatchInit /\ [][BatchNext]_vars

(* ------------------------------ properties ----------------------------- *)
\* the number of candidates that ended with a saved file
RECURSIVE NumSaved(_)
NumSaved(o) ==
  IF o = <<>> THEN 0
  ELSE (IF Head(o) = "saved" THEN 1 ELSE 0) + NumSaved(Tail(o))

\* the outcomes in which a candidate yields no file
Failures == {"error", "skipped", "nolink", "failed"}

\* the requests of the Document Fetcher, in the order of its strategies
FetchRank(op) ==
  CASE op = "click" -> 1
    [] op = "get" -> 2
    [] op = "goto_pdf" -> 3
    [] OTHER -> 0

\* the invocation is over
Finished == pc = "done"

\* C1: in both flows, for every limit k >= 0 and every search page, the list
\* of candidates that is processed has at most k elements and no URL twice.
C1_CandidatesCappedAndDistinct ==
  /\ Len(result_links) <= k
  /\ \A a, b \in DOMAIN result_links : a # b => result_links[a] # result_links[b]

\* C1 witness: an enumeration that found more distinct candidates than the
\* limit and was cut to the limit.
C1_Witness ==
  /\ pc = "next"
  /\ i = 0
  /\ k = 1
  /\ Len(found) > k
  /\ Len(result_links) = k

\* C2: every path in the list that is returned names a file whose content
\* starts with the %PDF signature, whichever strategy saved it.
C2_SavedFilesArePdf ==
  \A n \in DOMAIN downloaded_files :
    \E f \in disk : f.path = downloaded_files[n] /\ f.content = "pdf"

\* C3: a direct fetch that is answered OK with a body that is not a PDF is no
\* success: nothing is written or appended, the flag stays false, the
\* navigation strategy is attempted next, and when that fails as well the
\* article yields no file.
C3_BadSignatureIsNotSuccess ==
  \A n \in DOMAIN log :
    (log[n].op = "get" /\ log[n].res = "ok_html") =>
      /\ ~log[n].saved
      /\ {f.path : f \in disk} = Range(downloaded_files)
      /\ n = Len(log) =>
           /\ pc = "nav"
           /\ ~pdf_downloaded
           /\ Len(downloaded_files) = NumSaved(outcome)
      /\ n < Len(log) =>
           /\ n + 1 = Len(log)
           /\ log[n + 1].op = "goto_pdf"
           /\ pc = "fetch_end"
           /\ ~log[n + 1].saved =>
                /\ ~pdf_downloaded
                /\ Len(downloaded_files) = NumSaved(outcome)

\* C3 witness: the direct fetch got an HTML body with status OK, the
\* navigation was then tried and failed, and no file was saved.
C3_Witness ==
  /\ pc = "fetch_end"
  /\ Len(log) >= 2
  /\ log[Len(log) - 1].op = "get"
  /\ log[Len(log) - 1].res = "ok_html"
  /\ log[Len(log)].op = "goto_pdf"
  /\ ~log[Len(log)].saved
  /\ ~pdf_downloaded

\* C4: when the locator's result comes from a loose match (a link that ends
\* in .pdf and does not hold the canonical fragment of the article), the URL
\* is the canonical template filled with the identifier and the last segment
\* of the link, and is not the link's href.
C4_LooseMatchIsReconstructed ==
  (pdf_link.tier \in {"loose", "generic"}
     /\ ~Contains(pdf_link.href, PdfFragment(pmc_id))) =>
    /\ EndsWith(pdf_link.href, <<".pdf">>)
    /\ pdf_link.url = PMCRoot \o <<"/", "articles", "/">> \o pmc_id \o <<"/", "pdf", "/">>
                        \o LastSegment(pdf_link.href)
    /\ pdf_link.url # pdf_link.href

\* C4 witness: the PMC flow located the document through the loose link
\* /pdf/alt.pdf of the page of article PMC1234567.
C4_Witness ==
  /\ mode = "pmc"
  /\ pc = "click"
  /\ pdf_link.tier = "loose"
  /\ pdf_link.href = <<"/", "pdf", "/", "alt", ".pdf">>
  /\ pmc_id = <<"PMC", "1234567">>

C6_BrowserClosedOnEveryExit ==
  /\ launches <= 1
  /\ (Finished /\ launches = 1) => (browser = "closed" /\ closes = 1)

\* C7: a failed enumeration (search navigation, no link found, debug
\* snapshot) ends the invocation with an empty list and without an exception.
C7_EnumerationFailureReturnsEmpty ==
  /\ (Finished /\ enum_failed) => (status = "returned" /\ returned = <<>>)
  /\ (status = "raised") => search_requests = 0

\* C7 witness: the PubMed flow found no link, wrote the screenshot, failed to
\* write the markup dump, and returned.
C7_Witness ==
  /\ Finished
  /\ mode = "pubmed"
  /\ enum_failed
  /\ snapshots = {"debug_pubmed_search_page.png"}
  /\ status = "returned"

\* C8: in the PubMed flow the article page that is requested is the
\* canonical URL of the resolved identifier, and not the matched link's href.
C8_ArticleUrlIsCanonical ==
  \A n \in DOMAIN log :
    (mode = "pubmed" /\ log[n].op = "goto_article" /\ Truthy(pmc_id)) =>
      /\ log[n].target = CanonicalArticleUrl(pmc_id)
      /\ log[n].target # resolved.href

\* C9: the fetcher's requests come in the order click (by selector), GET,
\* navigation, each of the last two at most once, and a request that saved a
\* file is the last request of the article.
C9_FetchOrderAndShortCircuit ==
  /\ \A a, b \in DOMAIN log :
       (a < b /\ FetchRank(log[a].op) > 0) =>
         /\ FetchRank(log[b].op) >= FetchRank(log[a].op)
         /\ (log[a].op = "click" /\ log[b].op = "click") => log[a].sel < log[b].sel
         /\ log[a].op \in {"get", "goto_pdf"} => log[b].op # log[a].op
         /\ ~log[a].saved
  /\ (pdf_downloaded /\ pc \in {"click", "get", "nav", "fetch_end"}) =>
       (log # <<>> /\ log[Len(log)].saved)

\* C9 witness: the click strategy saved the file and the two later
\* strategies were passed over.
C9_Witness ==
  /\ pc = "fetch_end"
  /\ pdf_downloaded
  /\ log[Len(log)].op = "click"

\* C10: in the PubMed flow a record without any cross-reference is skipped:
\* only the record page was requested for it, it adds no path, the other
\* candidates are processed, and with limit 2, one such record and one
\* success, one file is returned.
C10_UnresolvedRecordIsSkipped ==
  /\ (pc = "next" /\ outcome # <<>> /\ outcome[Len(outcome)] = "skipped") =>
       /\ mode = "pubmed"
       /\ Len(log) = 1
       /\ log[1].op = "goto_record"
       /\ Len(downloaded_files) = NumSaved(outcome)
  /\ (Finished /\ status = "returned" /\ "skipped" \in Range(outcome)) =>
       Len(outcome) = Len(result_links)
  /\ (Finished /\ status = "returned" /\ k = 2 /\ Len(outcome) = 2
        /\ {outcome[1], outcome[2]} = {"skipped", "saved"}) =>
       Len(returned) = 1

\* C10 witness: limit 2, the first record had no cross-reference, the second
\* was resolved and saved, one file was returned.
C10_Witness ==
  /\ Finished
  /\ status = "returned"
  /\ k = 2
  /\ outcome = <<"skipped", "saved">>
  /\ Len(returned) = 1

\* C11: in the PMC flow, when every candidate exposes a canonical document
\* link and its download succeeds, the invocation returns one path per
\* candidate, at most k, and each file is named by the last segment of the
\* canonical document URL of its article.
C11_SavedUnderCanonicalFilename ==
  /\ (mode = "pmc" /\ pc = "fetch_end" /\ pdf_downloaded
        /\ pdf_link.tier = "exact"
        /\ Contains(pdf_link.url, PdfFragment(pmc_id))
        /\ EndsWith(pdf_link.url, <<".pdf">>)) =>
       downloaded_files[Len(downloaded_files)] = PathOf(LastSegment(pdf_link.url))
  /\ (mode = "pmc" /\ Finished /\ status = "returned"
        /\ \A n \in DOMAIN outcome : outcome[n] = "saved") =>
       /\ Len(returned) = Len(result_links)
       /\ Len(returned) <= k

\* C12: when no strategy yields a candidate, the step that ends with the
\* early return has written both the rendered image and the markup dump of
\* the search page, in the PMC flow as in the PubMed flow.
C12_SnapshotHasImageAndMarkup ==
  [][(pc = "snapshot" /\ pc' = "close") =>
       /\ snapshots' \cap {"debug_search_page.png", "debug_pubmed_search_page.png"} # {}
       /\ snapshots' \cap {"debug_search_page.html", "debug_pubmed_search_page.html"} # {}
    ]_vars

\* C13: in batch_download_papers a phrase whose call raised is mapped to the
\* empty list when its iteration ends, the loop goes on to every later
\* phrase, every phrase has an entry when the batch is over, and the batch
\* never raises.
C13_PhraseFailureIsContained ==
  /\ batch_status # "raised"
  /\ Len(calls) = (IF batch_pc = "call" THEN term_i - 1 ELSE term_i)
  /\ (batch_pc = "loop" /\ term_i >= 1 /\ calls[term_i] = "raised") =>
       /\ search_terms[term_i] \in DOMAIN results
       /\ results[search_terms[term_i]] = <<>>
  /\ batch_pc \in {"summary", "done"} =>
       /\ term_i = Len(search_terms)
       /\ DOMAIN results = Range(search_terms)

\* C13 witness: the call for the first of two phrases raised, the call for
\* the second returned a file, and the batch returned both entries.
C13_Witness ==
  /\ batch_pc = "done"
  /\ batch_status = "returned"
  /\ calls = <<"raised", "returned">>
  /\ search_terms[1] # search_terms[2]
  /\ results[search_terms[1]] = <<>>
  /\ results[search_terms[2]] # <<>>

\* the tiers of the Document Locator in the order of their priority
TierRank(tier) ==
  CASE tier = "exact" -> 1
    [] tier = "text" -> 2
    [] tier = "loose" -> 3
    [] tier = "generic" -> 4
    [] OTHER -> 0

\* what one tier of the locator of the flow finds on the page, by itself
TierAlone(tier) ==
  CASE tier = "exact" -> IF mode = "pmc" THEN PMCLocateExact(page.links, pmc_id)
                         ELSE PubMedLocateExact(page.links, pmc_id, 1)
    [] tier = "text" -> IF mode = "pmc" THEN PMCLocateText(page.links, pmc_id) ELSE NoPdfLink
    [] tier = "loose" -> IF mode = "pmc" THEN PMCLocateLoose(page.links, pmc_id)
                         ELSE PubMedLocateLoose(page.links, pmc_id)
    [] tier = "generic" -> IF mode = "pmc" THEN PMCLocateGeneric(page.links, pmc_id, 1)
                           ELSE NoPdfLink
    [] OTHER -> NoPdfLink

\* the article page is loaded and its document has just been located
Located == pc = "click" /\ sel = 1

\* C14: when the locator has found a document, the link is the one of the
\* first tier that finds one on the page, that tier's query is the last
\* page query issued, no tier of lower priority was queried, and inside a
\* loop over selectors no selector after the first hit was queried.
C14_EarliestLocatorTierWins ==
  Located =>
    LET q == IF mode = "pmc" THEN PMCLocateQueries(page.links, pmc_id)
             ELSE PubMedLocateQueries(page.links, pmc_id)
    IN  /\ q # <<>>
        /\ q[Len(q)].tier = pdf_link.tier
        /\ pdf_link = TierAlone(pdf_link.tier)
        /\ \A t \in {"exact", "text", "loose", "generic"} :
             TierRank(t) < TierRank(pdf_link.tier) => TierAlone(t).tier = "none"
        /\ \A a \in DOMAIN q :
             /\ TierRank(q[a].tier) <= TierRank(pdf_link.tier)
             /\ (a < Len(q) /\ mode = "pubmed" /\ q[a].tier = "exact") =>
                  ~PubMedExactFinds(page.links, pmc_id, q[a].sel)
             /\ \A b \in DOMAIN q :
                  a < b => \/ TierRank(q[a].tier) < TierRank(q[b].tier)
                           \/ q[a].tier = q[b].tier /\ q[a].sel < q[b].sel

\* C14 witness: the page of the PMC flow has a canonical link and a loose
\* link, the exact tier found the canonical one and nothing was queried
\* after it.
C14_Witness ==
  /\ mode = "pmc"
  /\ pc = "click"
  /\ pdf_link.tier = "exact"
  /\ PMCLocateLoose(page.links, pmc_id).tier # "none"
  /\ PMCLocateLoose(page.links, pmc_id).url # pdf_link.url
  /\ PMCLocateQueries(page.links, pmc_id) = <<Query("exact", 1)>>

\* what one tier of the resolver finds on the record page, by itself
ResolverTierAlone(n) ==
  CASE n = 1 -> ResolveScoped(page)
    [] n = 2 -> ResolveUnscoped(page, 1)
    [] n = 3 -> ResolveMarkup(page)
    [] OTHER -> Unresolved

\* the record page is loaded and its identifier has just been resolved
Resolved == mode = "pubmed" /\ pc = "article_nav"

\* C15: when the resolver has an identifier, it is the one of the first of
\* the three tiers that finds one on the record page, that tier's query is
\* the last one issued, no later tier was queried or scanned, and the
\* identifier used downstream is that tier's.
C15_FirstResolverTierWins ==
  /\ Resolved =>
       LET q == ResolveQueries(page)
       IN  /\ resolved.tier \in 1..3
           /\ resolved = ResolverTierAlone(resolved.tier)
           /\ \A n \in 1..3 : n < resolved.tier => ResolverTierAlone(n).tier = 0
           /\ q[Len(q)].tier = resolved.tier
           /\ \A a \in DOMAIN q :
                /\ q[a].tier <= resolved.tier
                /\ (a < Len(q) /\ q[a].tier = 2) => ~UnscopedFinds(page, q[a].sel)
                /\ \A b \in DOMAIN q :
                     a < b => \/ q[a].tier < q[b].tier
                              \/ q[a].tier = q[b].tier /\ q[a].sel < q[b].sel
  /\ (mode = "pubmed" /\ pc \in {"article_nav", "click", "get", "nav", "fetch_end"}) =>
       pmc_id = resolved.id

\* C15 witness: the scoped tier found PMC1234567 on a page where the
\* unscoped selectors alone would find another identifier.
C15_Witness ==
  /\ Resolved
  /\ resolved.tier = 1
  /\ ResolveUnscoped(page, 1).tier = 2
  /\ ResolveUnscoped(page, 1).id # resolved.id
  /\ ResolveQueries(page) = <<[tier |-> 1, sel |-> 1]>>

\* the requests of the log that were made with operation op
Requests(op) == {n \in DOMAIN log : log[n].op = op}

\* C16: a strategy that fails passes on to the next one: when the fetcher
\* ends without a file, every click that was possible, the direct GET and
\* the navigation have each been attempted and none saved, no path was
\* appended, no exception has left the invocation, and the loop goes on to
\* the candidates that remain.
C16_FetchFailuresAreSwallowed ==
  /\ (pc = "fetch_end" /\ ~pdf_downloaded) =>
       /\ \A n \in DOMAIN log : ~log[n].saved
       /\ \A n \in DOMAIN ClickSelectors :
            QueryAll(page.links, ClickSelectors[n], pmc_id) # <<>> =>
              \E a \in Requests("click") : log[a].sel = n
       /\ Cardinality(Requests("get")) = 1
       /\ Cardinality(Requests("goto_pdf")) = 1
       /\ \A a \in Requests("click"), b \in Requests("get"), c \in Requests("goto_pdf") :
            a < b /\ b < c
       /\ Len(downloaded_files) = NumSaved(outcome)
       /\ status = "running"
  /\ (pc = "delay" /\ outcome[Len(outcome)] = "failed") =>
       /\ Len(downloaded_files) = NumSaved(outcome)
       /\ status = "running"
  /\ (Finished /\ "failed" \in Range(outcome)) =>
       /\ status = "returned"
       /\ Len(outcome) = Len(result_links)
       /\ Len(returned) = NumSaved(outcome)

\* C16 witness: after a first candidate that was saved, the second one had
\* its click time out, its GET fail and its navigation time out.
C16_Witness ==
  /\ pc = "fetch_end"
  /\ ~pdf_downloaded
  /\ outcome = <<"saved">>
  /\ Requests("click") # {}
  /\ \E b \in Requests("get") : log[b].res = "error"
  /\ \E c \in Requests("goto_pdf") : log[c].res = "timeout"

\* the search page is loaded and the enumeration has just ended with links
EnumeratedNow == pc = "next" /\ i = 0 /\ search_requests > 0

\* the normalised URLs of the links that an extraction strategy accepts on
\* the search page, in document order, repetitions included: strategy n of
\* the targeted list, or (n = 0) the scan of every link
StrategyUrls(n) ==
  LET selector == IF n = 0 THEN (IF mode = "pmc" THEN "a" ELSE "a[href]")
             ELSE IF mode = "pmc" THEN PMCSearchSelectors[n]
             ELSE PubMedSearchSelectors[n]
      accepted(l) ==
        IF mode = "pmc"
        THEN IF n = 0 THEN PMCScanAccepts(l.href) ELSE PMCAccepts(l.href)
        ELSE /\ Truthy(l.href)
             /\ PmidOf(l.href) # ""
             /\ n = 0 => (DigitLen(PmidOf(l.href)) >= 6 /\ DigitLen(PmidOf(l.href)) <= 8)
      links == SelectSeq(QueryAll(page.links, selector, <<>>), accepted)
  IN  [j \in DOMAIN links |->
         IF mode = "pmc" THEN MakeAbsolute(links[j].href)
         ELSE PubMedUrl(PmidOf(links[j].href))]

\* the targeted strategies of the flow
Strategies ==
  IF mode = "pmc" THEN DOMAIN PMCSearchSelectors ELSE DOMAIN PubMedSearchSelectors

\* the sets of strategies that may have raised instead of yielding
MayFail == IF mode = "pmc" THEN {{}} ELSE FailingSelectors

\* strategy n is the one the candidates come from: the first targeted
\* strategy that yields a link or, when none does, the scan (n = 0)
YieldingStrategy(n, failed) ==
  IF n = 0
  THEN \A m \in Strategies : m \in failed \/ StrategyUrls(m) = <<>>
  ELSE /\ n \in Strategies \ failed
       /\ StrategyUrls(n) # <<>>
       /\ \A m \in Strategies : m < n => (m \in failed \/ StrategyUrls(m) = <<>>)

\* C17: the candidates all come from one strategy: the first targeted
\* strategy, in list order, that yields a link; the scan of every link
\* yields them only when every targeted strategy yielded nothing.
C17_FirstYieldingStrategyOnly ==
  EnumeratedNow =>
    \E failed \in MayFail : \E n \in Strategies \cup {0} :
      /\ YieldingStrategy(n, failed)
      /\ found # <<>>
      /\ Range(found) \subseteq Range(StrategyUrls(n))
      /\ (n # 0 \/ mode = "pmc") => Range(found) = Range(StrategyUrls(n))

\* C17 witness: the PMC search page has a link that only the third
\* strategy accepts and a link of the first strategy; the candidates are
\* those of the first strategy alone.
C17_Witness ==
  /\ EnumeratedNow
  /\ mode = "pmc"
  /\ StrategyUrls(1) # <<>>
  /\ StrategyUrls(3) # <<>>
  /\ Range(StrategyUrls(3)) \cap Range(StrategyUrls(1)) = {}
  /\ Range(found) = Range(StrategyUrls(1))

\* the elements of s in order, each kept at its first occurrence only
RECURSIVE FirstOccurrences(_)
FirstOccurrences(s) ==
  IF s = <<>> THEN <<>>
  ELSE LET front == SubSeq(s, 1, Len(s) - 1)
           last == s[Len(s)]
       IN  IF last \in Range(front) THEN FirstOccurrences(front)
           ELSE Append(FirstOccurrences(front), last)

\* C18: the candidates that are processed are the first k elements of the
\* accepted links, in discovery order, each URL kept at its first
\* occurrence; also when the PubMed flow falls back on the scan of every
\* link, which stops at 2k links.
C18_DedupInOrderThenTruncate ==
  EnumeratedNow =>
    \E failed \in MayFail : \E n \in Strategies \cup {0} :
      /\ YieldingStrategy(n, failed)
      /\ result_links = SubSeq(FirstOccurrences(StrategyUrls(n)), 1,
                               Min({k, Len(FirstOccurrences(StrategyUrls(n)))}))

\* C18 witness: the PubMed scan of every link met the same record through
\* two links and kept it once.
C18_Witness ==
  /\ EnumeratedNow
  /\ mode = "pubmed"
  /\ k = 1
  /\ YieldingStrategy(0, 1..6)
  /\ Len(StrategyUrls(0)) = 2
  /\ StrategyUrls(0)[1] = StrategyUrls(0)[2]
  /\ result_links = <<StrategyUrls(0)[1]>>

\* the requests that load a document into the page
Navigations == {"goto_record", "goto_article", "goto_pdf"}

\* C19: no navigation is issued again to a URL it has failed on: the search
\* URL is requested at most once in an invocation, and no candidate has two
\* navigations to one URL of which the earlier failed.
C19_FailedNavigationNotReissued ==
  /\ search_requests <= 1
  /\ \A a, b \in DOMAIN log :
       (a < b /\ log[a].op \in Navigations /\ log[b].op \in Navigations
          /\ log[a].res \in {"failed", "timeout"}) =>
         log[a].target # log[b].target

\* C20: every step that ends the processing of a candidate while another
\* candidate remains is the inter-article delay, whatever the outcome of
\* the candidate.
C20_DelayAfterEveryCandidate ==
  [][(pc # "next" /\ pc' = "next" /\ i >= 1 /\ i < Len(result_links)) => pc = "delay"]_vars

\* a candidate is being processed: one of its steps is the next to run
InProgress == pc \in {"record_nav", "article_nav", "click", "get", "nav", "fetch_end"}

\* C21: the candidates are processed one after the other in enumeration
\* order: while candidate i is in progress every earlier candidate has ended,
\* the loop index moves by one and only between candidates, a step issues at
\* most one request and only for the candidate in progress, and a path is
\* appended at the end of the list by the candidate in progress, so that
\* the paths are in the order of their candidates.
C21_SequentialInEnumerationOrder ==
  /\ [](/\ InProgress => (i >= 1 /\ Len(outcome) = i - 1)
        /\ ~InProgress => Len(outcome) = i)
  /\ [][/\ i' # i => (i' = i + 1 /\ pc = "next" /\ Len(outcome) = i)
        /\ (log' # log /\ log' # <<>>) =>
             (InProgress /\ Len(log') = Len(log) + 1 /\ SubSeq(log', 1, Len(log)) = log)
        /\ downloaded_files' # downloaded_files =>
             /\ InProgress
             /\ Len(downloaded_files') = Len(downloaded_files) + 1
             /\ SubSeq(downloaded_files', 1, Len(downloaded_files)) = downloaded_files
             /\ Len(outcome') \in {i - 1, i}]_vars

\* C21 witness: two candidates were processed and each saved a file under
\* its own name; the list has the first candidate's path first.
C21_Witness ==
  /\ Finished
  /\ outcome = <<"saved", "saved">>
  /\ Len(returned) = 2
  /\ returned[1] # returned[2]

\* C22: the element that the click strategy clicks is the link of the
\* located document: its href, made absolute, is the URL that the Document
\* Locator returned for the article, or it is the href of the link from
\* which the locator built that URL; a file saved by a click is then the
\* located document and no other link that a selector matches.
C22_ClickedElementIsLocatedDocument ==
  \A n \in DOMAIN log :
    (log[n].op = "click" /\ log[n].saved) =>
      \/ MakeAbsolute(log[n].target) = pdf_link.url
      \/ log[n].target = pdf_link.href

\* the bytes that a request which saved a file has written
Body(res) == IF res \in {"pdf", "ok_pdf"} THEN "pdf" ELSE "html"

\* C23: a fetch that succeeds under a filename that an earlier article of
\* the invocation was saved under is neither skipped nor renamed: its path
\* is appended again, the file at that path holds the bytes of this fetch
\* and no other file changes; at the end the list has one entry for each
\* candidate that was saved.
C23_CollisionLastWriteWins ==
  /\ [][downloaded_files' # downloaded_files =>
          LET p == downloaded_files'[Len(downloaded_files')]
              e == log'[Len(log')]
          IN  /\ e.saved
              /\ p = PathOf(filename')
              /\ downloaded_files' = Append(downloaded_files, p)
              /\ {f \in disk' : f.path = p} = {[path |-> p, content |-> Body(e.res)]}
              /\ {f \in disk' : f.path # p} = {f \in disk : f.path # p}]_vars
  /\ [](Finished => Len(returned) = NumSaved(outcome))

\* C23 witness: two articles were saved under one filename; the list has
\* the path twice and the disk has one file.
C23_Witness ==
  /\ Finished
  /\ outcome = <<"saved", "saved">>
  /\ Len(returned) = 2
  /\ returned[1] = returned[2]
  /\ Cardinality(disk) = 1

\* the links of the page whose URL holds the pattern /articles/{id}/pdf/
\* and ends in .pdf
PatternLinks(pg, id) ==
  {n \in DOMAIN pg : /\ Contains(MakeAbsolute(pg[n].href), PdfFragment(id))
                     /\ EndsWith(pg[n].href, <<".pdf">>)}

\* C24: the exact-pattern tier is tried with the numeric identifier too: on
\* a page where no link of the full identifier's pattern ends in .pdf and a
\* link of the numeric pattern does, the locator's result comes from the
\* exact tier and is that link, in both flows.
C24_NumericVariantIsTried ==
  (Located /\ StartsWith(pmc_id, <<"PMC">>)
     /\ PatternLinks(page.links, pmc_id) = {}
     /\ PatternLinks(page.links, StripPMC(pmc_id)) # {}) =>
    /\ pdf_link.tier = "exact"
    /\ \E n \in PatternLinks(page.links, StripPMC(pmc_id)) :
         pdf_link.url = MakeAbsolute(page.links[n].href)

\* C25: a URL that the exact-pattern tier returns holds the pattern
\* /articles/{id}/pdf/ with the full or the numeric identifier and ends in
\* .pdf, whatever the identifier is.
C25_ExactTierUrlEndsInPdf ==
  (Located /\ pdf_link.tier = "exact") =>
    /\ \/ Contains(pdf_link.url, PdfFragment(pmc_id))
       \/ Contains(pdf_link.url, PdfFragment(StripPMC(pmc_id)))
    /\ EndsWith(pdf_link.url, <<".pdf">>)

\* C26: every invocation ends, and one that has entered its try block ends
\* by returning the list of saved paths with browser.close() called: no
\* loop over selectors, links or candidates goes on for ever.
C26_InvocationTerminates ==
  /\ <>Finished
  /\ (pc = "search") ~>
       (Finished /\ status = "returned" /\ browser = "closed"
          /\ returned = downloaded_files)

\* C26 witness: an invocation that went through two candidates, the first
\* of which failed in every fetch strategy, has returned.
C26_Witness ==
  /\ Finished
  /\ status = "returned"
  /\ browser = "closed"
  /\ Len(outcome) = 2
  /\ outcome[1] = "failed"
  /\ returned = <<>>

\* C27: in the PMC flow the identifier that is derived from the URL of the
\* candidate in progress is not empty and is the segment that follows
\* /articles/ in that URL, so that the tiers of the locator are applied.
C27_DerivedIdentifierIsArticleId ==
  (mode = "pmc" /\ InProgress) =>
    /\ pmc_id # <<>>
    /\ Contains(result_links[i], <<"/", "articles", "/">> \o pmc_id)

\* C28: a candidate appends at most one path: the list has one path for
\* each candidate that ended saved, and one more while the candidate in
\* progress has its file; its length is at most the number of candidates
\* started, which is at most the limit k.
C28_AtMostOnePathPerCandidate ==
  /\ Len(downloaded_files) =
       NumSaved(outcome) + (IF InProgress /\ pdf_downloaded THEN 1 ELSE 0)
  /\ Len(downloaded_files) <= i
  /\ i <= k

\* C28 witness: with k = 2 the second candidate has saved its file after
\* the first: the list has as many paths as the limit allows.
C28_Witness ==
  /\ pc = "fetch_end"
  /\ k = 2
  /\ i = 2
  /\ outcome = <<"saved">>
  /\ pdf_downloaded
  /\ Len(downloaded_files) = 2

\* C29: a candidate that fails leaves the list as it was when the candidate
\* was started: the list changes only by an append at its end, made by the
\* candidate in progress, which raises the flag pdf_downloaded; the flag is
\* lowered only between candidates; and the step that ends a candidate
\* with a failure finds the flag down and changes neither the list nor the
\* files.
C29_FailedCandidateLeavesList ==
  [][/\ downloaded_files' # downloaded_files =>
          /\ InProgress
          /\ ~pdf_downloaded
          /\ pdf_downloaded'
          /\ Len(downloaded_files') = Len(downloaded_files) + 1
          /\ SubSeq(downloaded_files', 1, Len(downloaded_files)) = downloaded_files
     /\ (pdf_downloaded /\ ~pdf_downloaded') => (pc = "next" /\ downloaded_files' = downloaded_files)
     /\ outcome' # outcome =>
          /\ Len(outcome') = Len(outcome) + 1
          /\ SubSeq(outcome', 1, Len(outcome)) = outcome
          /\ outcome'[Len(outcome')] \in Failures =>
               /\ ~pdf_downloaded
               /\ downloaded_files' = downloaded_files
               /\ disk' = disk
               /\ \A n \in DOMAIN log' : ~log'[n].saved]_vars

\* C29 witness: the first candidate saved a file, the second failed in
\* every fetch strategy, and the list still holds the first one's path only.
C29_Witness ==
  /\ pc = "delay"
  /\ outcome = <<"saved", "failed">>
  /\ Len(downloaded_files) = 1

\* the filename of a path of the destination directory
NameOf(path) == SubSeq(path, Len(PathOf(<<>>)) + 1, Len(path))

\* C30: every path of the list is the destination directory joined with one
\* filename that has no separator and ends in .pdf; after the locator the
\* filename is the last segment of the located URL, or {identifier}.pdf
\* when that segment does not end in .pdf; and a file is saved under that
\* name or, after a click, under a suggested name that ends in .pdf.
C30_PathsAreDirectoryPlusPdfName ==
  /\ [](\A n \in DOMAIN downloaded_files :
          /\ downloaded_files[n] = PathOf(NameOf(downloaded_files[n]))
          /\ "/" \notin Range(NameOf(downloaded_files[n]))
          /\ EndsWith(NameOf(downloaded_files[n]), <<".pdf">>))
  /\ [](Located =>
          filename = IF EndsWith(LastSegment(pdf_link.url), <<".pdf">>)
                     THEN LastSegment(pdf_link.url)
                     ELSE pmc_id \o <<".pdf">>)
  /\ [][downloaded_files' # downloaded_files =>
          /\ downloaded_files'[Len(downloaded_files')] = PathOf(filename')
          /\ \/ filename' = (IF EndsWith(LastSegment(pdf_link.url), <<".pdf">>)
                             THEN LastSegment(pdf_link.url)
                             ELSE pmc_id \o <<".pdf">>)
             \/ /\ filename' \in SuggestedFilenames
                /\ EndsWith(filename', <<".pdf">>)
                /\ \E m \in DOMAIN log' : log'[m].op = "click"]_vars

\* C30 witness: the located URL ends in /pdf/, without a filename, and the
\* file was saved as {identifier}.pdf in the destination directory.
C30_Witness ==
  /\ pc = "fetch_end"
  /\ pdf_downloaded
  /\ LastSegment(pdf_link.url) = <<>>
  /\ downloaded_files[Len(downloaded_files)] = PathOf(pmc_id \o <<".pdf">>)

\* C31: the Document Locator of the PubMed flow and the one of the PMC flow
\* agree: on the article page that is loaded and for the identifier of the
\* article, both give the same document URL, or both give none.
C31_LocatorsAgree ==
  Located =>
    PMCLocate(page.links, pmc_id).url = PubMedLocate(page.links, pmc_id).url

====
